---- MODULE Spec2Model ----
(***************************************************************************)
(* Delegation power resolution (liquid democracy).                         *)
(*                                                                         *)
(*   prepare_graph          src/graph_tools.py   raw multigraph -> graph   *)
(*   resolve_delegations    src/LE.py            sparse linear system      *)
(*   resolve_delegations_LP src/LP.py            linear program            *)
(*   iterate_delegations    src/iterative.py     relaxation rounds         *)
(*                                                                         *)
(* Floating point numbers are modelled as exact rationals <<num, den>>     *)
(* with den > 0, in lowest terms.                                          *)
(***************************************************************************)
EXTENDS Integers, Sequences, FiniteSets

(***************************************************************************)
(* Bounds of the model.                                                    *)
(***************************************************************************)
\* Number of (u, v[, weight]) entries of the edge list given to prepare_graph.
MaxEdges == 3
\* Delegation weights given to the solvers are multiples of 1/WeightUnits.
WeightUnits == 2
\* Rounds of iterate_delegations the model follows.
MaxRounds == 16

(***************************************************************************)
(* Rational arithmetic.                                                    *)
(***************************************************************************)
Abs(x) == IF x < 0 THEN -x ELSE x

RECURSIVE GCD(_, _)
GCD(a, b) == IF b = 0 THEN a ELSE GCD(b, a % b)

\* The rational n/d (d # 0) in lowest terms with a positive denominator.
Rat(n, d) ==
    LET g == GCD(Abs(n), Abs(d))
        s == IF d < 0 THEN -1 ELSE 1
    IN  <<(s * n) \div g, (s * d) \div g>>

Zero == <<0, 1>>
One == <<1, 1>>
\* Sums and comparisons go through the least common denominator.
LCD(x, y) == (x[2] \div GCD(x[2], y[2])) * y[2]
RAdd(x, y) ==
    LET L == LCD(x, y)
    IN  Rat(x[1] * (L \div x[2]) + y[1] * (L \div y[2]), L)
RNeg(x) == <<-x[1], x[2]>>
RSub(x, y) == RAdd(x, RNeg(y))
RMul(x, y) == Rat(x[1] * y[1], x[2] * y[2])
RDiv(x, y) == Rat(x[1] * y[2], x[2] * y[1])
RLess(x, y) ==
    LET L == LCD(x, y)
    IN  x[1] * (L \div x[2]) < y[1] * (L \div y[2])
RLeq(x, y) == x = y \/ RLess(x, y)
RInt(n) == <<n, 1>>

\* sum(f[x] for x in S)
RECURSIVE RSum(_, _)
RSum(f, S) ==
    IF S = {} THEN Zero
    ELSE LET x == CHOOSE y \in S : TRUE
         IN  RAdd(f[x], RSum(f, S \ {x}))

RECURSIVE SeqSum(_)
SeqSum(s) == IF s = <<>> THEN 0 ELSE Head(s) + SeqSum(Tail(s))

(***************************************************************************)
(* prepare_graph (src/graph_tools.py).                                     *)
(***************************************************************************)
\* The name of the synthetic sink that absorbs collapsed terminal SCCs.
lost_node_name == "cycle_sink_node"

\* Node identifiers a caller may use.  Identifiers are arbitrary hashable
\* values, so the string used for the synthetic sink is one of them.
Names == {"a", "b", "c", lost_node_name}
Pairs == Names \X Names
\* Weights of the input edges (positive).
Weights == {1, 2}
\* The vertices argument: none (every node comes from an edge) or three.
VertexSets == {{}, {"a", "b", "c"}}
\* Target sink fractions passed as sink_frac (0.2 is the default; 2 cannot
\* be met).
SinkFracs == {<<0, 1>>, <<1, 5>>, <<1, 2>>, <<1, 1>>, <<2, 1>>}

VARIABLES
    pc,            \* position in prepare_graph
    edges,         \* argument: the edge list not yet read, as the parallel
                   \* weights of each (u, v)
    sink_frac,     \* argument
    DGnodes,       \* DG.nodes
    DG,            \* DG[u][v]['weight']; Zero when DG has no edge (u, v)
    terminal_sccs, \* collapse_all_terminal_sccs: the terminal SCCs not yet collapsed
    initial_amount_of_nodes,  \* len(DG.nodes()) before the collapse
    \* The solvers (LE.py, LP.py, iterative.py):
    call,          \* which solver runs, and where it is
    nodes,         \* argument: the nodes
    delegations,   \* argument: delegations[v][u] is the weight u delegates to v,
                   \* Zero when u does not delegate to v
    cutoff,        \* argument of iterate_delegations
    values,        \* iterate_delegations: values
    total_change,  \* iterate_delegations: total_change of the last round
    count,         \* iterate_delegations: count
    result,        \* what the solver returned
    \* resolve_delegations_LP step by step (LP.py):
    lp_vars,       \* lp_vars: the name of each node's LpVariable
    pending,       \* the nodes the constraint loop has not visited yet
    constraints,   \* model.constraints: the names of the constraints added
    \* create_delegation_graph (graph_gen.py); it shares nodes and delegations:
    num_nodes,     \* argument
    num_loops,     \* argument
    loops_done,    \* the iterations of the loop-adding phase that are over
    \* iterate_delegations delegation by delegation (iterative.py):
    temp_values,   \* temp_values: the values when the round began
    visited        \* the (node, src) delegations the round has applied

prepVars == <<pc, edges, sink_frac, DGnodes, DG, terminal_sccs, initial_amount_of_nodes>>
solveVars == <<call, nodes, delegations, cutoff, values, total_change, count, result>>
lpVars == <<lp_vars, pending, constraints>>
genVars == <<num_nodes, num_loops, loops_done>>
roundVars == <<temp_values, visited>>
vars == <<prepVars, solveVars, lpVars, genVars, roundVars>>

RECURSIVE NumEdges(_, _)
NumEdges(E, S) ==
    IF S = {} THEN 0
    ELSE LET p == CHOOSE q \in S : TRUE
         IN  Len(E[p]) + NumEdges(E, S \ {p})

NoEdges == [p \in Pairs |-> Zero]

has_edge(w, u, v) == w[<<u, v>>] # Zero
out_edges(w, n) == {v \in Names : has_edge(w, n, v)}
in_edges(w, n) == {u \in Names : has_edge(w, u, n)}
out_degree(w, n) == Cardinality(out_edges(w, n))
\* sum(w for _, _, w in DG.out_edges(node, data='weight'))
OutWeightSum(w, n) == RSum([v \in Names |-> w[<<n, v>>]], Names)
NumSinks(N, w) == Cardinality({n \in N : out_degree(w, n) = 0})

\* The N reachable from the N of S along edges of w (S included).
RECURSIVE Reachable(_, _)
Reachable(w, S) ==
    LET T == S \cup UNION {out_edges(w, n) : n \in S}
    IN  IF T = S THEN S ELSE Reachable(w, T)

\* nx.strongly_connected_components(graph)
strongly_connected_components(N, w) ==
    {{v \in N : v \in Reachable(w, {u}) /\ u \in Reachable(w, {v})} : u \in N}

\* collapse_all_terminal_sccs, steps 1 and 2: the SCCs without a sink whose
\* outgoing edges all stay inside.
FindTerminalSCCs(N, w) ==
    {scc \in strongly_connected_components(N, w) :
        /\ ~ \E n \in scc : out_degree(w, n) = 0
        /\ \A u \in scc : \A v \in out_edges(w, u) : v \in scc}

\* collapse_all_terminal_sccs, step 3, the edges after the redirection loop
\* over one scc: every edge (u, node) from outside into the scc is added to
\* (u, lost_node_name) and removed.
RedirectIntoLost(w, scc) ==
    [p \in Pairs |->
        IF p[1] \notin scc /\ p[2] = lost_node_name
            /\ \E node \in scc : has_edge(w, p[1], node)
        THEN RAdd(w[p], RSum([node \in Names |-> w[<<p[1], node>>]], scc))
        ELSE IF p[1] \notin scc /\ p[2] \in scc THEN Zero
        ELSE w[p]]

\* graph.remove_nodes_from(scc): the edges left.
RemoveNodes(w, scc) ==
    [p \in Pairs |-> IF p[1] \in scc \/ p[2] \in scc THEN Zero ELSE w[p]]

\* The N after collapsing scc: add_edge creates lost_node_name when an
\* edge is redirected, remove_nodes_from deletes the scc.
NodesAfterCollapse(N, w, scc) ==
    (N \cup (IF \E u \in N \ scc : \E node \in scc : has_edge(w, u, node)
                 THEN {lost_node_name} ELSE {})) \ scc

\* Step 4: divide each outgoing weight by the node's outgoing weight sum.
NormalizedWeights(w) ==
    [p \in Pairs |->
        IF w[p] = Zero THEN Zero ELSE RDiv(w[p], OutWeightSum(w, p[1]))]

\* Step 2: the weights of all (u, v) duplicates summed into one edge.
MergedWeights(E) == [p \in Pairs |-> RInt(SeqSum(E[p]))]

\* A loop condition that lets the loop stop one sink short of the target.
TooFewSinksButOne ==
    (NumSinks(DGnodes, DG) + 1) * sink_frac[2] < sink_frac[1] * Cardinality(DGnodes)

\* The loop condition of step 3:
\* sum(DG.out_degree(n) == 0 for n in DG.nodes()) < sink_frac * len(G.nodes)
TooFewSinks ==
    NumSinks(DGnodes, DG) * sink_frac[2] < sink_frac[1] * Cardinality(DGnodes)

\* No solver call is under way.
SolversIdle ==
    /\ call = "none"
    /\ nodes = {}
    /\ delegations = <<>>
    /\ cutoff = Zero
    /\ values = <<>>
    /\ total_change = Zero
    /\ count = 0
    /\ result = <<>>
    /\ lp_vars = <<>>
    /\ pending = {}
    /\ constraints = {}
    /\ num_nodes = 0
    /\ num_loops = 0
    /\ loops_done = 0
    /\ temp_values = <<>>
    /\ visited = {}

Init ==
    /\ pc = "input"
    /\ edges = [p \in Pairs |-> <<>>]
    /\ sink_frac = <<1, 5>>
    /\ DGnodes = {}
    /\ DG = NoEdges
    /\ terminal_sccs = {}
    /\ initial_amount_of_nodes = 0
    /\ SolversIdle

\* The caller appends (u, v, weight) to the edge list.
AddEdge3(u, v, weight) ==
    /\ pc = "input"
    /\ NumEdges(edges, Pairs) < MaxEdges
    /\ edges' = [edges EXCEPT ![<<u, v>>] = Append(@, weight)]
    /\ UNCHANGED <<pc, sink_frac, DGnodes, DG, terminal_sccs, initial_amount_of_nodes, solveVars, lpVars, genVars, roundVars>>

\* The caller appends (u, v) to the edge list: weight 1.
AddEdge2(u, v) ==
    /\ pc = "input"
    /\ NumEdges(edges, Pairs) < MaxEdges
    /\ edges' = [edges EXCEPT ![<<u, v>>] = Append(@, 1)]
    /\ UNCHANGED <<pc, sink_frac, DGnodes, DG, terminal_sccs, initial_amount_of_nodes, solveVars, lpVars, genVars, roundVars>>

\* prepare_graph(vertices, edges, sink_frac), steps 1 and 2.
CreateAndMerge(vertices, sf) ==
    /\ pc = "input"
    /\ pc' = "sinks"
    /\ sink_frac' = sf
    /\ DGnodes' = vertices \cup {p[1] : p \in {q \in Pairs : edges[q] # <<>>}}
                           \cup {p[2] : p \in {q \in Pairs : edges[q] # <<>>}}
    /\ DG' = MergedWeights(edges)
    /\ edges' = [p \in Pairs |-> <<>>]
    /\ UNCHANGED <<terminal_sccs, initial_amount_of_nodes, solveVars, lpVars, genVars, roundVars>>

\* Step 3, one iteration: a random node loses its outgoing edges.
EnforceSinkFraction(node) ==
    /\ pc = "sinks"
    /\ TooFewSinks
    /\ node \in DGnodes
    /\ DG' = IF out_degree(DG, node) > 0
             THEN [p \in Pairs |-> IF p[1] = node THEN Zero ELSE DG[p]]
             ELSE DG
    /\ UNCHANGED <<pc, edges, sink_frac, DGnodes, terminal_sccs, initial_amount_of_nodes, solveVars, lpVars, genVars, roundVars>>

\* Step 4, and steps 1 and 2 of collapse_all_terminal_sccs.
NormalizeWeights ==
    /\ pc = "sinks"
    /\ ~TooFewSinks
    /\ DG' = NormalizedWeights(DG)
    /\ terminal_sccs' = FindTerminalSCCs(DGnodes, DG')
    /\ initial_amount_of_nodes' = Cardinality(DGnodes)
    /\ pc' = "collapse"
    /\ UNCHANGED <<edges, sink_frac, DGnodes, solveVars, lpVars, genVars, roundVars>>

\* Step 5, one iteration of "for scc in terminal_sccs".
CollapseSCC(scc) ==
    /\ pc = "collapse"
    /\ scc \in terminal_sccs
    /\ DG' = RemoveNodes(RedirectIntoLost(DG, scc), scc)
    /\ DGnodes' = NodesAfterCollapse(DGnodes, DG, scc)
    /\ terminal_sccs' = terminal_sccs \ {scc}
    /\ UNCHANGED <<pc, edges, sink_frac, initial_amount_of_nodes, solveVars, lpVars, genVars, roundVars>>

\* return DG
ReturnDG ==
    /\ pc = "collapse"
    /\ terminal_sccs = {}
    /\ pc' = "returned"
    /\ UNCHANGED <<edges, sink_frac, DGnodes, DG, terminal_sccs, initial_amount_of_nodes, solveVars, lpVars, genVars, roundVars>>

(***************************************************************************)
(* The solvers: their arguments.                                           *)
(***************************************************************************)
\* Node identifiers of the graphs given to the solvers.
SolverNodes == {"A", "B", "C"}
\* Delegation weights are the multiples of 1/WeightUnits in (0, 1].
WeightGrid == {Rat(k, WeightUnits) : k \in 0..WeightUnits}
\* Values of the cutoff argument.
Cutoffs == {<<1, 2>>, <<1, 1>>, <<3, 1>>}

\* What one node delegates: a weight (or Zero) per delegate, at most its
\* whole vote in total.
OutRows(N) == {r \in [N -> WeightGrid] : RLeq(RSum(r, N), One)}
\* The incoming map of the graph in which u delegates out[u][v] to v.
IncomingMap(N, out) == [v \in N |-> [u \in N |-> out[u][v]]]
DelegationGraphs(N) == {IncomingMap(N, out) : out \in [N -> OutRows(N)]}

\* The delegates of u, and the sum of what u delegates.
Delegates(d, N, u) == {v \in N : d[v][u] # Zero}
DelegatedSum(d, N, u) == RSum([v \in N |-> d[v][u]], N)
RECURSIVE DelegationClosure(_, _, _)
DelegationClosure(d, N, S) ==
    LET T == S \cup UNION {Delegates(d, N, u) : u \in S}
    IN  IF T = S THEN S ELSE DelegationClosure(d, N, T)

(***************************************************************************)
(* A direct solver for linear systems: Gauss-Jordan elimination over the   *)
(* rationals.  M[e][v] is the coefficient of variable v in equation e,     *)
(* rhs[e] its right-hand side.                                             *)
(***************************************************************************)
RECURSIVE Eliminate(_, _, _, _, _)
Eliminate(M, rhs, todo, free, pivot) ==
    IF todo = {} THEN [M |-> M, rhs |-> rhs, free |-> free, pivot |-> pivot]
    ELSE LET k == CHOOSE v \in todo : TRUE
             cand == {e \in free : M[e][k] # Zero}
         IN  IF cand = {} THEN Eliminate(M, rhs, todo \ {k}, free, pivot)
             ELSE LET r == CHOOSE e \in cand : TRUE
                      prow == [v \in DOMAIN M[r] |-> RDiv(M[r][v], M[r][k])]
                      prhs == RDiv(rhs[r], M[r][k])
                      M2 == [e \in DOMAIN M |->
                                IF e = r THEN prow
                                ELSE [v \in DOMAIN M[e] |->
                                         RSub(M[e][v], RMul(M[e][k], prow[v]))]]
                      rhs2 == [e \in DOMAIN M |->
                                  IF e = r THEN prhs
                                  ELSE RSub(rhs[e], RMul(M[e][k], prhs))]
                  IN  Eliminate(M2, rhs2, todo \ {k}, free \ {r},
                                [pivot EXCEPT ![k] = r])

\* status "unique" with the solution x, "infeasible" when the equations
\* contradict each other, "underdetermined" when they leave a variable free.
LinSolve(M, rhs, V) ==
    LET g == Eliminate(M, rhs, V, DOMAIN M, [v \in V |-> "none"])
    IN  IF \E e \in g.free : g.rhs[e] # Zero THEN [status |-> "infeasible"]
        ELSE IF \E v \in V : g.pivot[v] = "none" THEN [status |-> "underdetermined"]
        ELSE [status |-> "unique", x |-> [v \in V |-> g.rhs[g.pivot[v]]]]

(***************************************************************************)
(* LE.py                                                                   *)
(***************************************************************************)
\* set_up: the nodes that delegate with a weight > 0, and the others.
outgoing_nodes(d, N) == {src \in N : \E node \in N : RLess(Zero, d[node][src])}
sink_nodes(d, N) == N \ outgoing_nodes(d, N)

\* A matrix whose diagonal is 1.0 whatever a node delegates to itself.
set_up_A_overwriting(d, N) ==
    [v \in N |-> [u \in N |-> IF u = v THEN One ELSE RNeg(d[v][u])]]

\* set_up: A has 1.0 at (v, v) and -w at (v, u) for u delegating w to v
\* (entries at the same place add up), b is all ones.
set_up_A(d, N) ==
    [v \in N |-> [u \in N |-> RSub(IF u = v THEN One ELSE Zero, d[v][u])]]
set_up_b(N) == [v \in N |-> One]

\* spsolve(A, b).  On a singular matrix spsolve warns and returns a vector
\* of nan; nothing is raised, so the except clause of solve is never
\* entered.  nan is written 0/0.
NaN == <<0, 0>>
spsolve(A, b, N) ==
    LET s == LinSolve(A, b, N)
    IN  IF s.status = "unique" THEN s.x ELSE [v \in N |-> NaN]
\* A solve that hands the empty system to spsolve, which rejects it.
solve_without_size_check(A, b, N) ==
    IF N = {} THEN [error |-> "ValueError"] ELSE spsolve(A, b, N)
\* solve: A.size (the number of stored entries, at least one per node) is 0
\* for the empty graph, and "return {}, []" hands back a pair.
solve(A, b, N) ==
    IF N = {} THEN [powers |-> <<>>, sinks |-> <<>>] ELSE spsolve(A, b, N)

\* The solution reported for every node, sink or not.
resolve_delegations_unfiltered(d, N) ==
    [powers |-> solve(set_up_A(d, N), set_up_b(N), N), sinks |-> sink_nodes(d, N)]

\* resolve_delegations: (powers, sink_nodes).
resolve_delegations(d, N) ==
    LET x == solve(set_up_A(d, N), set_up_b(N), N)
        sinks == sink_nodes(d, N)
    IN  IF "error" \in DOMAIN x THEN x  \* an exception of solve propagates
        ELSE [powers |-> [node \in N |-> IF node \in sinks THEN x[node] ELSE Zero],
              sinks |-> sinks]

(***************************************************************************)
(* LP.py                                                                   *)
(***************************************************************************)
SinkNodesConstraint == "SinkNodesConstraint"

\* The constraints of the model: for each node
\*   lp_vars[node] == 1 + sum(weight * lp_vars[src]), named by the node,
\* and sum(lp_vars[node] for node in sink_nodes) == len(nodes).
LPConstraints(d, N) ==
    [c \in N \cup {SinkNodesConstraint} |->
        IF c = SinkNodesConstraint
        THEN [v \in N |-> IF v \in sink_nodes(d, N) THEN One ELSE Zero]
        ELSE [v \in N |-> RSub(IF v = c THEN One ELSE Zero, d[c][v])]]
\* Right-hand sides that ask the sinks for one unit more than there is.
LPRightHandSidesOneMore(N) ==
    [c \in N \cup {SinkNodesConstraint} |->
        IF c = SinkNodesConstraint THEN RInt(Cardinality(N) + 1) ELSE One]
LPRightHandSides(N) ==
    [c \in N \cup {SinkNodesConstraint} |->
        IF c = SinkNodesConstraint THEN RInt(Cardinality(N)) ELSE One]

\* model.solve(): the variables are free reals and the objective is
\* constant, so the solver looks for a point that meets the constraints.
LPSolve(d, N) == LinSolve(LPConstraints(d, N), LPRightHandSides(N), N)

\* resolve_delegations_LP: ({node: value(var)}, sink_nodes).  The status is
\* not looked at; value(var) of every variable is returned as it is.
\* Without a unique feasible point the values are whatever the backend
\* left, written 1/0.
Unknown == <<1, 0>>
resolve_delegations_LP(d, N) ==
    LET s == LPSolve(d, N)
    IN  [powers |-> [node \in N |->
                        IF s.status = "unique" THEN s.x[node] ELSE Unknown],
         sinks |-> sink_nodes(d, N),
         status |-> s.status]

(***************************************************************************)
(* iterative.py                                                            *)
(***************************************************************************)
\* A pass that credits the delegate and does not debit the delegator.
RoundValuesKeeping(d, N, snapshot) ==
    [n \in N |->
        RAdd(snapshot[n],
             RSum([src \in N |-> RMul(d[n][src], snapshot[src])], N))]
\* A round total that counts all the values held, moved or not.
RoundTotalHeld(d, N, snapshot) == RSum(snapshot, N)
\* A round total that leaves out what a node delegates to itself.
RoundTotalChangeWithoutSelf(d, N, snapshot) ==
    RSum([node \in N |->
             RSum([src \in N |->
                      IF src = node THEN Zero
                      ELSE RMul(d[node][src], snapshot[src])], N)], N)

\* One pass of the while loop over all delegations, from the copy snapshot
\* of the values: every (src, weight) of node moves weight * snapshot[src]
\* from src to node.
RoundValues(d, N, snapshot) ==
    [n \in N |->
        RSub(RAdd(snapshot[n],
                  RSum([src \in N |-> RMul(d[n][src], snapshot[src])], N)),
             RSum([node \in N |-> RMul(d[node][n], snapshot[n])], N))]
RoundTotalChange(d, N, snapshot) ==
    RSum([node \in N |->
             RSum([src \in N |-> RMul(d[node][src], snapshot[src])], N)], N)

\* The solvers' caller picks a graph.
InitSolve ==
    /\ pc = "off"
    /\ edges = <<>>
    /\ sink_frac = Zero
    /\ DGnodes = {}
    /\ DG = <<>>
    /\ terminal_sccs = {}
    /\ initial_amount_of_nodes = 0
    /\ call = "none"
    /\ nodes \in SUBSET SolverNodes
    /\ delegations \in DelegationGraphs(nodes)
    /\ cutoff = Zero
    /\ values = <<>>
    /\ total_change = Zero
    /\ count = 0
    /\ result = <<>>
    /\ lp_vars = <<>>
    /\ pending = {}
    /\ constraints = {}
    /\ num_nodes = 0
    /\ num_loops = 0
    /\ loops_done = 0
    /\ temp_values = <<>>
    /\ visited = {}

\* powers, sinks = LE.resolve_delegations(delegations, nodes)
ResolveLE ==
    /\ pc = "off" /\ call = "none"
    /\ call' = "LE"
    /\ result' = resolve_delegations(delegations, nodes)
    /\ UNCHANGED <<prepVars, lpVars, genVars, roundVars, nodes, delegations, cutoff, values, total_change, count>>

\* resolve_delegations_LP on a graph with nodes and without a sink: the
\* left-hand side of the sink constraint is the empty sum, the int 0, and
\* "0 == len(nodes)" is the bool False, not a constraint.  Depending on the
\* PuLP version, model += (False, name) raises a TypeError or takes False as
\* the objective; in the latter case the model holds the per-node
\* constraints alone.
LPSolveNodeConstraints(d, N) ==
    LinSolve([c \in N |-> LPConstraints(d, N)[c]],
             [c \in N |-> LPRightHandSides(N)[c]], N)
LPResultWithoutSinkConstraint(d, N) ==
    LET s == LPSolveNodeConstraints(d, N)
    IN  [powers |-> [node \in N |->
                        IF s.status = "unique" THEN s.x[node] ELSE Unknown],
         sinks |-> {},
         status |-> s.status]
resolve_delegations_LP_without_sinks(d, N) ==
    {[error |-> "TypeError"], LPResultWithoutSinkConstraint(d, N)}

\* powers, sinks = LP.resolve_delegations_LP(delegations, nodes)
ResolveLP ==
    /\ pc = "off" /\ call = "none"
    /\ call' = "LP"
    /\ result' \in IF sink_nodes(delegations, nodes) = {} /\ nodes # {}
                   THEN resolve_delegations_LP_without_sinks(delegations, nodes)
                   ELSE {resolve_delegations_LP(delegations, nodes)}
    /\ UNCHANGED <<prepVars, lpVars, genVars, roundVars, nodes, delegations, cutoff, values, total_change, count>>

\* iterate_delegations(delegations, nodes, c), up to the while loop.
IterateStart(c) ==
    /\ pc = "off" /\ call = "none"
    /\ call' = "iterating"
    /\ cutoff' = c
    /\ values' = [node \in nodes |-> One]
    /\ count' = 0
    /\ UNCHANGED <<prepVars, lpVars, genVars, roundVars, nodes, delegations, total_change, result>>

\* One round of the while loop; it returns values when total_change < cutoff.
IterateRound ==
    /\ call = "iterating"
    /\ count < MaxRounds
    /\ values' = RoundValues(delegations, nodes, values)
    /\ total_change' = RoundTotalChange(delegations, nodes, values)
    /\ count' = count + 1
    /\ IF RLess(total_change', cutoff)
       THEN call' = "iterated" /\ result' = values'
       ELSE UNCHANGED <<call, result>>
    /\ UNCHANGED <<prepVars, lpVars, genVars, roundVars, nodes, delegations, cutoff>>

NextSolve ==
    \/ ResolveLE
    \/ ResolveLP
    \/ \E c \in Cutoffs : IterateStart(c)
    \/ IterateRound

SolveSpec == InitSolve /\ [][NextSolve]_vars
\* A round of the while loop was taken: count went up.
RoundTaken == call = "iterating" /\ count < MaxRounds /\ count' = count + 1
\* The loop of iterate_delegations runs on until it returns: a round that can
\* be taken is taken.
FairSolveSpec == SolveSpec /\ WF_count(RoundTaken)

Next ==
    \/ \E u, v \in Names : \E weight \in Weights : AddEdge3(u, v, weight)
    \/ \E u, v \in Names : AddEdge2(u, v)
    \/ \E vertices \in VertexSets : \E sf \in SinkFracs : CreateAndMerge(vertices, sf)
    \/ \E node \in Names : EnforceSinkFraction(node)
    \/ NormalizeWeights
    \/ \E scc \in SUBSET Names : CollapseSCC(scc)
    \/ ReturnDG

Spec == Init /\ [][Next]_vars

(***************************************************************************)
(* Properties of prepare_graph.                                            *)
(***************************************************************************)
\* S is strongly connected in w, has no sink, and no edge of w leaves it.
IsTerminalSCC(w, S) ==
    /\ S # {}
    /\ \A u, v \in S : v \in Reachable(w, {u})
    /\ \A u \in S : out_edges(w, u) # {} /\ out_edges(w, u) \subseteq S

CanReachSink(w, n) == \E s \in Reachable(w, {n}) : out_edges(w, s) = {}

\* C1: in the graph prepare_graph returns, every node either has no
\* outgoing edges or its outgoing edge weights sum to 1.
C1_OutWeightsSumToOne ==
    pc = "returned" =>
        \A n \in DGnodes : out_degree(DG, n) = 0 \/ OutWeightSum(DG, n) = One

\* C2: the graph prepare_graph returns holds no terminal SCC: no set of
\* nodes is strongly connected, without a sink and without an edge leaving
\* it; equivalently every node can reach a node of out-degree 0.
C2_NoTerminalSCCRemains ==
    pc = "returned" =>
        /\ \A S \in SUBSET DGnodes : ~IsTerminalSCC(DG, S)
        /\ \A n \in DGnodes : CanReachSink(DG, n)

\* C3: in the graph prepare_graph returns for a sink_frac in [0, 1], the
\* number of nodes of out-degree 0 is at least sink_frac times the number
\* of nodes, also after the collapse deleted nodes and added the lost node.
C3_SinkFractionMet ==
    (pc = "returned" /\ RLeq(Zero, sink_frac) /\ RLeq(sink_frac, One)) =>
        NumSinks(DGnodes, DG) * sink_frac[2] >= sink_frac[1] * Cardinality(DGnodes)

\* Half of the nodes had to be sinks, a terminal SCC was collapsed into the
\* lost node, and the returned graph still holds a node that delegates.
C3_Witness ==
    /\ pc = "returned"
    /\ sink_frac = <<1, 2>>
    /\ Cardinality(DGnodes) < initial_amount_of_nodes
    /\ lost_node_name \in DGnodes
    /\ \E n \in DGnodes : out_degree(DG, n) > 0

(***************************************************************************)
(* Properties of the solvers.                                              *)
(***************************************************************************)
\* Every delegator's outgoing weights sum to 1.
DelegatorsGiveAll(d, N) ==
    \A u \in N : Delegates(d, N, u) = {} \/ DelegatedSum(d, N, u) = One
\* From u some node that delegates nothing can be reached.
ReachesSink(d, N, u) ==
    \E s \in DelegationClosure(d, N, {u}) : Delegates(d, N, s) = {}
\* A terminal SCC exists exactly when some node reaches no sink.
HasTerminalSCC(d, N) == \E u \in N : ~ReachesSink(d, N, u)
\* A normalized delegation graph.
Normalized(d, N) == DelegatorsGiveAll(d, N) /\ ~HasTerminalSCC(d, N)
\* u delegates, directly or through others, to itself.
OnCycle(d, N, u) == u \in DelegationClosure(d, N, Delegates(d, N, u))

\* x_v - sum of w(u, v) * x_u over the delegations into v = 1, for every v.
SolvesEquations(x, d, N) ==
    \A v \in N :
        RSub(x[v], RSum([u \in N |-> RMul(d[v][u], x[u])], N)) = One

\* Example 1: B delegates 0.5 to A and 0.5 to C, A delegates 1.0 to C.
Example1 ==
    [v \in SolverNodes |-> [u \in SolverNodes |->
        IF <<u, v>> \in {<<"B", "A">>, <<"B", "C">>} THEN <<1, 2>>
        ELSE IF <<u, v>> = <<"A", "C">> THEN One
        ELSE Zero]]

\* C4: on a normalized delegation graph over n nodes the powers that
\* LE.resolve_delegations returns for the sinks sum to n.
C4_PowerConservation ==
    (call = "LE" /\ Normalized(delegations, nodes)) =>
        RSum(result.powers, result.sinks) = RInt(Cardinality(nodes))

\* A normalized graph with a cycle was resolved: a sink holds all 3 units.
C4_Witness ==
    /\ call = "LE"
    /\ Normalized(delegations, nodes)
    /\ \E u \in nodes : OnCycle(delegations, nodes, u)
    /\ \E s \in result.sinks : result.powers[s] = <<3, 1>>

\* C5: LE.resolve_delegations returns as sinks exactly the nodes that
\* delegate to nobody with a weight > 0, power 0 for every other node and
\* for every sink v the x_v of the solution x of the equations
\* x_v - sum w(u, v) * x_u = 1; on Example 1 it returns A = 0, B = 0, C = 3
\* and the sinks {C}.
C5_ResolveDelegations ==
    call = "LE" =>
        LET x == solve(set_up_A(delegations, nodes), set_up_b(nodes), nodes)
        IN  /\ result.sinks =
                 {v \in nodes : \A t \in nodes : ~RLess(Zero, delegations[t][v])}
            /\ \A v \in nodes \ result.sinks : result.powers[v] = Zero
            /\ (\A v \in nodes : x[v] # NaN) =>
                 /\ SolvesEquations(x, delegations, nodes)
                 /\ \A v \in result.sinks : result.powers[v] = x[v]
            /\ (nodes = SolverNodes /\ delegations = Example1) =>
                 /\ result.sinks = {"C"}
                 /\ result.powers = [v \in SolverNodes |->
                                        IF v = "C" THEN <<3, 1>> ELSE Zero]

\* Example 1 was resolved.
C5_Witness ==
    /\ call = "LE"
    /\ nodes = SolverNodes
    /\ delegations = Example1
    /\ result.powers["C"] = <<3, 1>>

\* C6: LP.resolve_delegations_LP, on a graph with a sink whose LP is solved,
\* reports power 0 for every node that is not a sink.
C6_LPNonSinksZero ==
    (/\ call = "LP"
     /\ sink_nodes(delegations, nodes) # {}
     /\ result.status = "unique") =>
        \A v \in nodes \ result.sinks : result.powers[v] = Zero

\* C7: on a normalized delegation graph the LP has exactly one feasible
\* point, and resolve_delegations_LP returns the sink set and, for every
\* sink, the power that LE.resolve_delegations returns.
C7_LPAgreesWithLE ==
    (call = "LP" /\ Normalized(delegations, nodes)) =>
        LET le == resolve_delegations(delegations, nodes)
        IN  /\ result.status = "unique"
            /\ result.sinks = le.sinks
            /\ \A s \in result.sinks : result.powers[s] = le.powers[s]

\* The LP of a normalized graph with a cycle was solved: a sink holds all
\* 3 units.
C7_Witness ==
    /\ call = "LP"
    /\ Normalized(delegations, nodes)
    /\ \E u \in nodes : OnCycle(delegations, nodes, u)
    /\ \E s \in result.sinks : result.powers[s] = <<3, 1>>

\* C8: on a normalized delegation graph the value iterate_delegations holds
\* for a sink never exceeds the power LE.resolve_delegations returns for it,
\* at return it is less than cutoff below that power, and it equals that
\* power when the last round moved nothing.
C8_IterativeConvergesToLE ==
    (call \in {"iterating", "iterated"} /\ Normalized(delegations, nodes)) =>
        LET le == resolve_delegations(delegations, nodes)
        IN  /\ \A s \in le.sinks : RLeq(values[s], le.powers[s])
            /\ call = "iterated" =>
                 \A s \in le.sinks :
                     /\ RLess(RSub(le.powers[s], result[s]), cutoff)
                     /\ total_change = Zero => result[s] = le.powers[s]

\* iterate_delegations returned on a normalized graph with a cycle, a sink
\* still short of its power.
C8_Witness ==
    /\ call = "iterated"
    /\ Normalized(delegations, nodes)
    /\ cutoff = <<1, 2>>
    /\ \E u \in nodes : OnCycle(delegations, nodes, u)
    /\ \E s \in sink_nodes(delegations, nodes) :
           RLess(result[s], resolve_delegations(delegations, nodes).powers[s])

\* C9: on a normalized delegation graph iterate_delegations returns, at the
\* end of the first round whose total moved amount is below cutoff.
C9_IterationTerminates ==
    /\ (call = "iterating" /\ Normalized(delegations, nodes)) ~> (call = "iterated")
    /\ [](call = "iterated" => RLess(total_change, cutoff))
    /\ [][(call = "iterating" /\ call' = "iterating" /\ count' # count)
            => ~RLess(total_change', cutoff)]_vars

\* iterate_delegations returned on a normalized graph after five rounds.
C9_Witness ==
    /\ call = "iterated"
    /\ Normalized(delegations, nodes)
    /\ count >= 5

invert_graph(N, w) == [v \in N |-> [u \in N |-> w[<<u, v>>]]]

\* The normalized two-node mutual cycle a <-> b, weight 1.0 each, no sink,
\* found as the terminal SCC {a, b}.
MutualCycleFound ==
    /\ pc = "collapse"
    /\ DGnodes = {"a", "b"}
    /\ DG = [p \in Pairs |->
                IF p \in {<<"a", "b">>, <<"b", "a">>} THEN One ELSE Zero]
    /\ terminal_sccs = {{"a", "b"}}

\* C11: when prepare_graph collapses the two-node mutual cycle (weight 1.0
\* each, no sink), the graph it is left with holds the lost node as a sink,
\* and LE.resolve_delegations on that graph gives the lost node the power 2.
C11_MutualCycleBecomesLost ==
    [][(MutualCycleFound /\ terminal_sccs' = {}) =>
        /\ lost_node_name \in DGnodes'
        /\ out_degree(DG', lost_node_name) = 0
        /\ resolve_delegations(invert_graph(DGnodes', DG'), DGnodes')
               .powers[lost_node_name] = <<2, 1>>]_vars

(***************************************************************************)
(* Error handling of the solvers.                                          *)
(***************************************************************************)
\* The equation system of LE.set_up has no unique solution.
Singular(d, N) == LinSolve(set_up_A(d, N), set_up_b(N), N).status # "unique"

\* C12: on a singular equation system (e.g. A and B delegating 1.0 to each
\* other) LE.resolve_delegations fails and returns no power map.
C12_SingularIsUnsolvable ==
    (call = "LE" /\ Singular(delegations, nodes)) => "powers" \notin DOMAIN result

\* The LP of the graph has a sink constraint and no feasible point: the
\* backend ends with the status Infeasible.
LPInfeasible(d, N) ==
    sink_nodes(d, N) # {} /\ LPSolve(d, N).status = "infeasible"

\* C13: when the LP backend ends with a non-optimal status,
\* resolve_delegations_LP fails and returns no power map.
C13_NonOptimalIsSolverFailure ==
    (call = "LP" /\ LPInfeasible(delegations, nodes)) => "powers" \notin DOMAIN result

(***************************************************************************)
(* resolve_delegations_LP step by step, on node identifiers that PuLP      *)
(* renames.                                                                *)
(***************************************************************************)
\* Node identifiers; four of them differ only in a character that PuLP
\* replaces in names.
Identifiers == {"u-v", "u+v", "u>v", "u/v", "w"}
\* LpVariable(node): the variable is named by the identifier with each of
\* the characters  - + [ ] space > /  replaced by "_".
LpVariableName(node) ==
    IF node \in {"u-v", "u+v", "u>v", "u/v"} THEN "u_v" ELSE node
\* f"Constraint_{node}" as the name of a constraint: each of the characters
\* - + [ ] space  replaced by "_".
ConstraintName(node) ==
    CASE node \in {"u-v", "u+v"} -> "Constraint_u_v"
      [] node = "u>v" -> "Constraint_u>v"
      [] node = "u/v" -> "Constraint_u/v"
      [] OTHER -> "Constraint_w"

\* Delegation graphs over N with at most one delegation, of weight 1.0.
LPGraphs(N) ==
    {[v \in N |-> [u \in N |-> Zero]]}
    \cup {[v \in N |-> [u \in N |-> IF u = a /\ v = b THEN One ELSE Zero]] :
             a \in N, b \in N}

InitLP ==
    /\ pc = "off"
    /\ edges = <<>>
    /\ sink_frac = Zero
    /\ DGnodes = {}
    /\ DG = <<>>
    /\ terminal_sccs = {}
    /\ initial_amount_of_nodes = 0
    /\ call = "none"
    /\ nodes \in SUBSET Identifiers
    /\ delegations \in LPGraphs(nodes)
    /\ cutoff = Zero
    /\ values = <<>>
    /\ total_change = Zero
    /\ count = 0
    /\ result = <<>>
    /\ lp_vars = <<>>
    /\ pending = {}
    /\ constraints = {}
    /\ num_nodes = 0
    /\ num_loops = 0
    /\ loops_done = 0
    /\ temp_values = <<>>
    /\ visited = {}

\* lp_vars = {node: LpVariable(node) for node in nodes}
LPCreateVariables ==
    /\ call = "none"
    /\ call' = "constraints"
    /\ lp_vars' = [node \in nodes |-> LpVariableName(node)]
    /\ pending' = nodes
    /\ UNCHANGED <<prepVars, genVars, roundVars, nodes, delegations, cutoff, values, total_change,
                   count, result, constraints>>

\* One iteration of "for node in nodes": model += (..., f"Constraint_{node}").
\* PuLP raises a PulpError when the model holds a constraint of that name.
LPAddNodeConstraint(node) ==
    /\ call = "constraints"
    /\ node \in pending
    /\ IF ConstraintName(node) \in constraints
       THEN /\ call' = "raised"
            /\ result' = [error |-> "PulpError"]
            /\ UNCHANGED <<pending, constraints>>
       ELSE /\ constraints' = constraints \cup {ConstraintName(node)}
            /\ pending' = pending \ {node}
            /\ UNCHANGED <<call, result>>
    /\ UNCHANGED <<prepVars, genVars, roundVars, nodes, delegations, cutoff, values, total_change,
                   count, lp_vars>>

\* model += sum(lp_vars[node] for node in sink_nodes) == len(nodes),
\* "SinkNodesConstraint".  Without a sink the left-hand side is the int 0 and
\* the comparison a bool: True is ignored, False raises a TypeError or
\* becomes the objective, depending on the PuLP version.
LPAddSinkConstraint ==
    /\ call = "constraints"
    /\ pending = {}
    /\ IF sink_nodes(delegations, nodes) # {}
       THEN /\ constraints' = constraints \cup {SinkNodesConstraint}
            /\ call' = "solve"
            /\ UNCHANGED result
       ELSE IF nodes = {}
       THEN call' = "solve" /\ UNCHANGED <<result, constraints>>
       ELSE \/ /\ call' = "raised"
               /\ result' = [error |-> "TypeError"]
               /\ UNCHANGED constraints
            \/ call' = "solve" /\ UNCHANGED <<result, constraints>>
    /\ UNCHANGED <<prepVars, genVars, roundVars, nodes, delegations, cutoff, values, total_change,
                   count, lp_vars, pending>>

\* model.solve() and the return.  With two variables of one name the
\* backend either refuses the model (PulpError) or hands back values that
\* belong to no node in particular.
LPSolveAndReturn ==
    /\ call = "solve"
    /\ call' = "returned"
    /\ result' \in
         IF \E u, v \in nodes : u # v /\ lp_vars[u] = lp_vars[v]
         THEN {[error |-> "PulpError"],
               [powers |-> [node \in nodes |-> Unknown],
                sinks |-> sink_nodes(delegations, nodes),
                status |-> "unknown"]}
         ELSE IF SinkNodesConstraint \in constraints \/ nodes = {}
         THEN {resolve_delegations_LP(delegations, nodes)}
         ELSE {LPResultWithoutSinkConstraint(delegations, nodes)}
    /\ UNCHANGED <<prepVars, genVars, roundVars, nodes, delegations, cutoff, values, total_change,
                   count, lpVars>>

NextLP ==
    \/ LPCreateVariables
    \/ \E node \in Identifiers : LPAddNodeConstraint(node)
    \/ LPAddSinkConstraint
    \/ LPSolveAndReturn

LPSetupSpec == InitLP /\ [][NextLP]_vars

\* Two distinct nodes were given LP variables of the same name.
VariableNamesCollide ==
    \E u, v \in nodes : u # v /\ LpVariableName(u) = LpVariableName(v)

\* C14: when two distinct node identifiers map to the same LP variable name,
\* resolve_delegations_LP has failed with IdentifierCollision as soon as the
\* variables are set up, no constraint added and nothing solved.
C14_CollisionFailsFast ==
    (VariableNamesCollide /\ call # "none") =>
        /\ call = "raised"
        /\ result.error = "IdentifierCollision"
        /\ constraints = {}

\* C15: on the empty graph (no nodes, no delegations) LE.resolve_delegations
\* returns an empty power map and an empty sink set, and raises no error.
C15_EmptyGraph ==
    (call = "LE" /\ nodes = {}) =>
        /\ "error" \notin DOMAIN result
        /\ DOMAIN result.powers = {}
        /\ result.sinks = {}

\* The empty graph was resolved.
C15_Witness ==
    /\ call = "LE"
    /\ nodes = {}
    /\ delegations = <<>>
    /\ "powers" \in DOMAIN result

(***************************************************************************)
(* create_delegation_graph (src/graph_gen.py).  Here delegations is the    *)
(* outgoing map: delegations[node] is the dict of node, as the list of its *)
(* <<delegate, weight>> items in insertion order; <<>> for a node without  *)
(* a key or with an empty dict.                                            *)
(***************************************************************************)
\* Bounds on the arguments num_nodes and num_loops.
MaxNodes == 4
MaxLoops == 2
\* min(3, i): a node gets at most 3 delegations.
MaxDelegations == 3
\* WEIGHTS = [(i + 1) / 10 for i in range(1, 10)]: 0.2, 0.3, ..., 1.0.
WEIGHTS == {Rat(i + 1, 10) : i \in 1..9}
\* The values np.random.choice(WEIGHTS) is taken to return: 0.2, 0.5, 1.0.
Draws == {w \in WEIGHTS : w \in {<<1, 5>>, <<1, 2>>, One}}
\* str(i)
Digits == <<"0", "1", "2", "3", "4", "5", "6", "7", "8", "9">>
str(i) == Digits[i + 1]
\* node = None
None == "None"

\* get_random_delegation_weights, the loop "for i in range(n-1)" with k
\* iterations to go: either a drawn weight fits (diff - choice > 0), or all
\* tries draw one that does not and the iteration gives up.
RECURSIVE DrawWeights(_, _, _)
DrawWeights(k, diff, weights) ==
    IF k = 0
    THEN {IF RLess(Zero, diff) THEN Append(weights, diff) ELSE weights}
    ELSE UNION {DrawWeights(k - 1, RSub(diff, choice), Append(weights, choice)) :
                   choice \in {c \in Draws : RLess(Zero, RSub(diff, c))}}
         \cup (IF \E c \in Draws : ~RLess(Zero, RSub(diff, c))
               THEN DrawWeights(k - 1, diff, weights) ELSE {})
\* The lists get_random_delegation_weights(n) can return.
get_random_delegation_weights(n) ==
    IF n = 0 THEN {<<>>} ELSE DrawWeights(n - 1, One, <<>>)

\* sorted(delegates, reverse=True) of one-character strings.
RECURSIVE SortedReverse(_)
SortedReverse(S) ==
    IF S = {} THEN <<>>
    ELSE LET m == CHOOSE x \in S :
                      \A y \in S :
                          (CHOOSE i \in 1..10 : Digits[i] = y)
                              <= (CHOOSE i \in 1..10 : Digits[i] = x)
         IN  <<m>> \o SortedReverse(S \ {m})

\* delegations.get(node, {}).get(delegate, 0) on the items of node.
RECURSIVE WeightIn(_, _)
WeightIn(items, delegate) ==
    IF items = <<>> THEN Zero
    ELSE IF Head(items)[1] = delegate THEN Head(items)[2]
    ELSE WeightIn(Tail(items), delegate)

\* setdefault(delegate, 0) and "+= weight" on the items of a node.
AddWeight(items, delegate, weight) ==
    IF \E k \in 1..Len(items) : items[k][1] = delegate
    THEN [k \in 1..Len(items) |->
             IF items[k][1] = delegate
             THEN <<delegate, RAdd(items[k][2], weight)>> ELSE items[k]]
    ELSE Append(items, <<delegate, weight>>)

\* The loop "for j in range(len(delegation_weights))" from index j on, items
\* being what delegations[node] holds so far.  delegation_weights[j + 1]
\* past the end of the list raises an IndexError.
RECURSIVE AddDelegations(_, _, _, _, _)
AddDelegations(node, delegation_weights, delegates, j, items) ==
    IF j > Len(delegation_weights) THEN [raised |-> FALSE, items |-> items]
    ELSE IF /\ delegates[j] = node
            /\ \/ delegation_weights[j] = One
               \/ RAdd(WeightIn(items, node), delegation_weights[j]) = One
         THEN IF Len(delegates) = 1 THEN [raised |-> FALSE, items |-> items]
              ELSE IF j + 1 > Len(delegation_weights)
              THEN [raised |-> TRUE, items |-> items]
              ELSE AddDelegations(node,
                       [delegation_weights EXCEPT
                           ![j + 1] = RAdd(@, delegation_weights[j])],
                       delegates, j + 1, items)
         ELSE AddDelegations(node, delegation_weights, delegates, j + 1,
                             AddWeight(items, delegates[j], delegation_weights[j]))

\* The keys of a node's dict, and the nodes without delegations.
DelegatesOf(d, node) == {d[node][k][1] : k \in 1..Len(d[node])}
IsSink(d, node) == d[node] = <<>>
RECURSIVE ReachableFrom(_, _)
ReachableFrom(d, S) ==
    LET T == S \cup UNION {DelegatesOf(d, n) : n \in S}
    IN  IF T = S THEN S ELSE ReachableFrom(d, T)
\* is_connected_to_sink: the depth-first search finds a node without
\* outgoing delegations exactly when one is reachable from start_node.
is_connected_to_sink(d, start_node) ==
    \E n \in ReachableFrom(d, {start_node}) : IsSink(d, n)

\* The loop "for j, delegate in enumerate(delegations.get(node, {}))" from
\* index j on; d is the state of delegations, keys the keys of node's dict
\* when the loop started.
RECURSIVE TryLoops(_, _, _, _, _)
TryLoops(d, node, keys, j, new_delegation_weight) ==
    IF j > Len(keys) THEN d
    ELSE LET delegate == keys[j]
         IN  IF IsSink(d, delegate)
             THEN LET looped == [d EXCEPT ![delegate] = <<<<node, One>>>>]
                  IN  IF ~is_connected_to_sink(looped, node)
                      THEN TryLoops(d, node, keys, j + 1, new_delegation_weight)
                      ELSE TryLoops(looped, node, keys, j + 1, new_delegation_weight)
             ELSE [d EXCEPT ![delegate] =
                      AddWeight([k \in 1..Len(@) |->
                                    <<@[k][1],
                                      RMul(RSub(One, new_delegation_weight), @[k][2])>>],
                                node, new_delegation_weight)]

InitGen ==
    /\ pc = "off"
    /\ edges = <<>>
    /\ sink_frac = Zero
    /\ DGnodes = {}
    /\ DG = <<>>
    /\ terminal_sccs = {}
    /\ initial_amount_of_nodes = 0
    /\ call = "generating"
    /\ nodes = {}
    /\ delegations = <<>>
    /\ cutoff = Zero
    /\ values = <<>>
    /\ total_change = Zero
    /\ count = 0
    /\ result = <<>>
    /\ lp_vars = <<>>
    /\ pending = {}
    /\ constraints = {}
    /\ num_nodes \in 0..MaxNodes
    /\ num_loops \in 0..MaxLoops
    /\ loops_done = 0
    /\ temp_values = <<>>
    /\ visited = {}

\* One iteration of "for i in range(num_nodes)".
GenAddNode(num_delegations, delegation_weights, chosen) ==
    /\ call = "generating"
    /\ Cardinality(nodes) < num_nodes
    /\ LET i == Cardinality(nodes)
           node == str(i)
           r == AddDelegations(node, delegation_weights, SortedReverse(chosen),
                               1, <<>>)
       IN  /\ num_delegations \in 0..(IF i < MaxDelegations THEN i ELSE MaxDelegations)
           /\ delegation_weights \in get_random_delegation_weights(num_delegations)
           /\ chosen \subseteq nodes \cup {node}
           /\ Cardinality(chosen) = num_delegations
           /\ nodes' = nodes \cup {node}
           /\ IF num_delegations > 0 /\ r.raised
              THEN /\ call' = "raised"
                   /\ result' = [error |-> "IndexError"]
                   /\ delegations' = [n \in nodes' |->
                                         IF n = node THEN r.items ELSE delegations[n]]
              ELSE /\ delegations' = [n \in nodes' |->
                                         IF n = node
                                         THEN (IF num_delegations > 0 THEN r.items ELSE <<>>)
                                         ELSE delegations[n]]
                   /\ UNCHANGED <<call, result>>
    /\ UNCHANGED <<prepVars, lpVars, genVars, roundVars, cutoff, values, total_change, count>>

\* One iteration of "for i in range(num_loops)": node is the non-sink the
\* tries found, or None when every try drew a sink.
GenAddLoop(node, new_delegation_weight) ==
    /\ call = "generating"
    /\ Cardinality(nodes) = num_nodes
    /\ loops_done < num_loops
    /\ \/ node \in nodes /\ ~IsSink(delegations, node)
       \/ node = None /\ (nodes = {} \/ \E n \in nodes : IsSink(delegations, n))
    /\ delegations' =
         IF node = None THEN delegations
         ELSE TryLoops(delegations, node,
                       [k \in 1..Len(delegations[node]) |-> delegations[node][k][1]],
                       1, new_delegation_weight)
    /\ loops_done' = loops_done + 1
    /\ UNCHANGED <<prepVars, lpVars, roundVars, num_nodes, num_loops, call, nodes, cutoff,
                   values, total_change, count, result>>

\* return delegations, nodes
GenReturn ==
    /\ call = "generating"
    /\ Cardinality(nodes) = num_nodes
    /\ loops_done = num_loops
    /\ call' = "returned"
    /\ result' = [delegations |-> delegations, nodes |-> nodes]
    /\ UNCHANGED <<prepVars, lpVars, genVars, roundVars, nodes, delegations, cutoff, values,
                   total_change, count>>

NextGen ==
    \/ \E num_delegations \in 0..MaxDelegations :
           \E delegation_weights \in get_random_delegation_weights(num_delegations) :
               \E chosen \in SUBSET {str(i) : i \in 0..MaxNodes} :
                   GenAddNode(num_delegations, delegation_weights, chosen)
    \/ \E node \in {str(i) : i \in 0..MaxNodes} \cup {None} :
           \E new_delegation_weight \in Draws \ {One} :
               GenAddLoop(node, new_delegation_weight)
    \/ GenReturn

GenSpec == InitGen /\ [][NextGen]_vars

RECURSIVE ItemsSum(_)
ItemsSum(items) ==
    IF items = <<>> THEN Zero ELSE RAdd(Head(items)[2], ItemsSum(Tail(items)))

\* The normalized-graph invariants on an outgoing map.
GenNormalized(d, N) ==
    \A n \in N :
        /\ IsSink(d, n) \/ (ItemsSum(d[n]) = One /\ DelegatesOf(d, n) # {n})
        /\ is_connected_to_sink(d, n)

\* C16: create_delegation_graph completes, and the graph it returns is
\* normalized: every node with outgoing delegations has outgoing weights
\* summing to 1.0, no node delegates only to itself, and every node can
\* reach a sink.
C16_GeneratorEmitsNormalizedGraphs ==
    /\ call # "raised"
    /\ call = "returned" => GenNormalized(result.delegations, result.nodes)

\* What holds of the graphs create_delegation_graph does return.
ReturnedGraphsNormalized ==
    call = "returned" => GenNormalized(result.delegations, result.nodes)

(***************************************************************************)
(* The sink-fraction loop of prepare_graph.                                *)
(***************************************************************************)
\* C17: in the sink-fraction loop of prepare_graph, once all nodes are
\* sinks the loop condition is false and the loop stops, whatever sink_frac
\* is.
C17_SinkLoopStops ==
    (pc = "sinks" /\ \A n \in DGnodes : out_degree(DG, n) = 0) => ~TooFewSinks

\* Each iteration of the sink-fraction loop that picks a node with positive
\* out-degree strictly increases the number of sinks.
SinkLoopGainsSinks ==
    [][(pc = "sinks" /\ pc' = "sinks" /\ DG' # DG) =>
          NumSinks(DGnodes', DG') > NumSinks(DGnodes, DG)]_vars

(***************************************************************************)
(* iterate_delegations, one delegation at a time (iterative.py).  The two  *)
(* for loops walk the dicts in their insertion order, which is the         *)
(* caller's; here the delegations of a round are visited in any order.     *)
(***************************************************************************)
\* Delegations in a graph iterated one delegation at a time.
MaxVisited == 3
\* Rounds followed one delegation at a time.
MaxSteppedRounds == 2

\* The (node, src) pairs the two for loops visit.
Visits(d, N) == {e \in N \X N : d[e[1]][e[2]] # Zero}

\* A loop body that reads the current value of src, not the copy.
ApplyDelegationInPlace(vals, snapshot, node, src, weight) ==
    LET credited == [vals EXCEPT ![node] = RAdd(@, RMul(weight, vals[src]))]
    IN  [credited EXCEPT ![src] = RSub(@, RMul(weight, vals[src]))]

\* values[node] += weight * temp_values[src]
\* values[src] -= weight * temp_values[src]
ApplyDelegation(vals, snapshot, node, src, weight) ==
    LET credited == [vals EXCEPT ![node] = RAdd(@, RMul(weight, snapshot[src]))]
    IN  [credited EXCEPT ![src] = RSub(@, RMul(weight, snapshot[src]))]

\* The caller picks a graph.
InitStepped ==
    /\ pc = "off"
    /\ edges = <<>>
    /\ sink_frac = Zero
    /\ DGnodes = {}
    /\ DG = <<>>
    /\ terminal_sccs = {}
    /\ initial_amount_of_nodes = 0
    /\ call = "none"
    /\ nodes \in SUBSET SolverNodes
    /\ delegations \in {d \in DelegationGraphs(nodes) :
                           Cardinality(Visits(d, nodes)) <= MaxVisited}
    /\ cutoff = Zero
    /\ values = <<>>
    /\ total_change = Zero
    /\ count = 0
    /\ result = <<>>
    /\ lp_vars = <<>>
    /\ pending = {}
    /\ constraints = {}
    /\ num_nodes = 0
    /\ num_loops = 0
    /\ loops_done = 0
    /\ temp_values = <<>>
    /\ visited = {}

\* iterate_delegations(delegations, nodes, c), up to the while loop.
SteppedStart(c) ==
    /\ call = "none"
    /\ call' = "while"
    /\ cutoff' = c
    /\ values' = [node \in nodes |-> One]
    /\ count' = 0
    /\ UNCHANGED <<prepVars, lpVars, genVars, roundVars, nodes, delegations,
                   total_change, result>>

\* The top of the while loop: temp_values = values.copy(); total_change = 0.0
CopyValues ==
    /\ call = "while"
    /\ count < MaxSteppedRounds
    /\ call' = "for"
    /\ temp_values' = values
    /\ total_change' = Zero
    /\ visited' = {}
    /\ UNCHANGED <<prepVars, lpVars, genVars, nodes, delegations, cutoff, values,
                   count, result>>

\* The body of the inner for loop, for one (src, weight) of node.
VisitDelegation(node, src) ==
    /\ call = "for"
    /\ <<node, src>> \in Visits(delegations, nodes) \ visited
    /\ values' = ApplyDelegation(values, temp_values, node, src,
                                 delegations[node][src])
    /\ total_change' = RAdd(total_change,
                            RMul(delegations[node][src], temp_values[src]))
    /\ visited' = visited \cup {<<node, src>>}
    /\ UNCHANGED <<prepVars, lpVars, genVars, temp_values, call, nodes,
                   delegations, cutoff, count, result>>

\* After the for loops: count += 1, and values is returned when
\* total_change < cutoff.
EndRound ==
    /\ call = "for"
    /\ visited = Visits(delegations, nodes)
    /\ count' = count + 1
    /\ IF RLess(total_change, cutoff)
       THEN call' = "iterated" /\ result' = values
       ELSE call' = "while" /\ UNCHANGED result
    /\ UNCHANGED <<prepVars, lpVars, genVars, roundVars, nodes, delegations,
                   cutoff, values, total_change>>

NextStepped ==
    \/ \E c \in Cutoffs : SteppedStart(c)
    \/ CopyValues
    \/ \E node \in SolverNodes, src \in SolverNodes : VisitDelegation(node, src)
    \/ EndRound

SteppedSpec == InitStepped /\ [][NextStepped]_vars

\* C18: every round of iterate_delegations is snapshot-then-apply: whatever
\* the order in which the delegations were visited, the values after the
\* round are snapshot[v] plus the sum over incoming delegations of
\* w(u,v)*snapshot[u] minus the sum over outgoing delegations of
\* w(v,t)*snapshot[v], and after every round and at return the values sum
\* to the number of nodes.
C18_SnapshotThenApply ==
    /\ ((call = "for" /\ visited = Visits(delegations, nodes)) \/
        (call \in {"while", "iterated"} /\ count > 0)) =>
           /\ values = RoundValues(delegations, nodes, temp_values)
           /\ RSum(values, nodes) = RInt(Cardinality(nodes))
    /\ call = "iterated" =>
           /\ result = values
           /\ RSum(result, nodes) = RInt(Cardinality(nodes))

\* The second round is over on a chain A -> B -> C with a delegation of B to
\* itself: three delegations were visited from values that were not all 1.
C18_Witness ==
    /\ call \in {"while", "iterated"}
    /\ count = 2
    /\ Cardinality(visited) = 3
    /\ \E n \in nodes : delegations[n][n] # Zero
    /\ \E u \in nodes, v \in nodes, t \in nodes :
           /\ u # v /\ v # t /\ u # t
           /\ delegations[v][u] # Zero /\ delegations[t][v] # Zero
    /\ \E n \in nodes : temp_values[n] # One

====
